---------------------------- MODULE Spec2Model ----------------------------
(***************************************************************************)
(* LTEmC HTTP(S) services (ltemc-http.c): the GET / POST / POST-file       *)
(* command sequences run under the AT-command lock, the page read, and the *)
(* receive handler S__httpRxHndlr that drains the shared rx ring buffer.   *)
(*                                                                         *)
(* The AT-command dispatcher (ATCMD_awaitLock, atcmd_tryInvoke,            *)
(* atcmd_invokeReuseLock, atcmd_awaitResult, atcmd_close) and the ring     *)
(* buffer (bbffr) are other modules of the driver; they are modelled       *)
(* from their use in ltemc-http.c and from the design description.         *)
(***************************************************************************)
EXTENDS Integers, Sequences, FiniteSets, TLC

(***************************************************************************)
(* Result codes (lq-types.h) and the values the model draws its inputs     *)
(* from.                                                                   *)
(***************************************************************************)
resultCode__unknown == 0
resultCode__success == 200
resultCode__successMax == 299
resultCode__timeout == 408
resultCode__conflict == 409
resultCode__preConditionFailed == 412
resultCode__internalError == 500
resultCode__extendedBase == 1000

\* httpCtrl->returnResponseHdrs: zeroed by http_initControl, assigned nowhere.
ctrl_returnResponseHdrs == 0

Tasks == {"app1", "app2"}
NoTask == "none"

GetOps == {"get", "getCustom"}
PostOps == {"post", "postCustom"}
FileOps == {"postFile"}
RequestOps == GetOps \cup PostOps \cup FileOps
ReadOps == {"readPage", "readPageToFile"}

Ready == {"idle", "done"}
\* positions of a request between the lock being taken and the return
LockedPcs == {"respHdr", "tls", "url", "getInvoke", "postInvoke", "fileReqHdr",
              "getTrailer", "postTrailer", "fileTrailer"}
ReadPcs == {"readAwait", "readFileAwait"}

\* results an awaited command can end with (atcmd_awaitResult)
CmdResults == {resultCode__success, resultCode__timeout, resultCode__internalError}
\* customRequest->headersLen: 0 until http_addPostData freezes the headers
HeadersLens == {0, 60}
\* <httprspcode> values of a trailer
StatusVals == {199, 200, 204, 299, 300, 404}
\* <content_length> values of a trailer
ContentLens == {0, 120}
\* a modem error reported in the trailer's <err> field
TrailerErrs == {703}

\* an inline POST body: postDataSz, and strlen(postData) (smaller when the body
\* holds a zero byte); for a custom request, sz is request->contentLen
PostBodies == {[sz |-> 5, strlen |-> 5], [sz |-> 5, strlen |-> 2]}
NoBody == [sz |-> 0, strlen |-> 0]
\* what a read through a null pointer may yield when the device survives it
GarbageLens == {0, 47}

NoCall == [op |-> "none", custom |-> FALSE, hdrLen |-> 0, respHdrs |-> FALSE, body |-> NoBody,
           port |-> 0]

(***************************************************************************)
(* The asynchronous trailer "<prefix>: <err>[,<httprspcode>[,<len>]]" as   *)
(* the awaited command delivers it: rslt is atcmd_awaitResultWithOptions'  *)
(* result, err is atcmd_getValue(), and hasStatus/status/len describe the  *)
(* response text handed to S__parseResponseForHttpStatus.                  *)
(***************************************************************************)
Trailers ==
    {[rslt |-> resultCode__timeout, err |-> 0, hasStatus |-> FALSE, status |-> 0, len |-> 0]}
    \cup {[rslt |-> resultCode__success, err |-> e, hasStatus |-> FALSE, status |-> 0, len |-> 0] :
              e \in TrailerErrs \cup {0}}
    \cup {[rslt |-> resultCode__success, err |-> 0, hasStatus |-> TRUE, status |-> s, len |-> l] :
              s \in StatusVals, l \in ContentLens}

VARIABLES
    pc,             \* pc[t]: position of task t in its current call
    call,           \* call[t]: the operation and arguments of t's current (or last) call
    ret,            \* ret[t]: the value the last call returned
    sent,           \* sent[t]: the commands t's current (or last) call issued, in order
    lockTried,      \* lockTried[t]: the current call has asked for the command lock
    requestState,   \* httpCtrl->requestState of t's control
    httpStatus,     \* httpCtrl->httpStatus
    pageSize,       \* httpCtrl->pageSize
    pageRemaining,  \* httpCtrl->pageRemaining
    useTls,         \* httpCtrl->useTls
    hostPort,       \* httpCtrl->hostPort
    hostUrl,        \* httpCtrl->hostUrl ("" until http_setConnection)
    isOpenLocked,   \* g_lqLTEM.atcmd lock: the task holding it, or NoTask
    autoLock,       \* the dispatcher releases the lock itself when the result is in
    dataMode,       \* the data-mode consumer configured by atcmd_configDataMode
    respHdrOpt,     \* the modem's "responseheader" option
    reqHdrOpt,      \* the modem's "requestheader" option
    faulted,        \* the device stopped on an invalid memory access
    atcmdResult,    \* g_lqLTEM.atcmd->resultCode: the result of the last awaited command
    atcmdResponse,  \* the trailer the last awaited method command was answered with
    entryCtrl,      \* entryCtrl[t]: t's control as it was when the call waiting for the
                    \* lock was made
    rxBffr,         \* g_lqLTEM.iop->rxBffr: the bytes received and not yet popped
    inbound,        \* the bytes of the modem's answer that have not arrived yet
    wrkBffr,        \* S__httpRxHndlr's wrkBffr, as the C string it holds
    delivered,      \* the calls of appRecvDataCB so far: [data, final]
    pumpPc,         \* S__httpRxHndlr: "off", "armed", "loop", "done"
    pumpRslt,       \* S__httpRxHndlr's return value
    page,           \* the page the modem streams: [len, err]
    wholeAtStart,   \* preamble, body and marker were buffered when the handler started
    rqst,           \* the httpRequest_t a caller composes: [buf, sz, headersLen, contentLen]
    asserted,       \* an ASSERT of the request functions failed
    bcall,          \* the last call of a request function: its name and arguments
    nCalls,         \* the number of calls of request functions so far
    log             \* what the calls appended, in order: header lines and body bytes

engineVars == <<pc, call, ret, sent, lockTried, requestState, httpStatus, pageSize,
                pageRemaining, useTls, hostPort, hostUrl, isOpenLocked, autoLock, dataMode,
                respHdrOpt, reqHdrOpt, faulted, atcmdResult, atcmdResponse, entryCtrl>>
pumpVars == <<rxBffr, inbound, wrkBffr, delivered, pumpPc, pumpRslt, page, wholeAtStart>>
vars == <<pc, call, ret, sent, lockTried, requestState, httpStatus, pageSize,
          pageRemaining, useTls, hostPort, hostUrl, isOpenLocked, autoLock, dataMode,
          respHdrOpt, reqHdrOpt, faulted, atcmdResult, atcmdResponse, entryCtrl,
          rxBffr, inbound, wrkBffr, delivered, pumpPc, pumpRslt, page, wholeAtStart,
          rqst, asserted, bcall, nCalls, log>>
ctrlVars == <<requestState, httpStatus, pageSize, pageRemaining>>
connVars == <<useTls, hostPort, hostUrl>>
modemVars == <<respHdrOpt, reqHdrOpt>>
atcmdVars == <<atcmdResult, atcmdResponse>>
rqstVars == <<rqst, asserted, bcall, nCalls, log>>
\* what the request functions never touch
serviceVars == <<pc, call, ret, sent, lockTried, requestState, httpStatus, pageSize,
                 pageRemaining, useTls, hostPort, hostUrl, isOpenLocked, autoLock, dataMode,
                 respHdrOpt, reqHdrOpt, atcmdResult, atcmdResponse, entryCtrl>>

NoTrailer == [rslt |-> 0, err |-> 0, hasStatus |-> FALSE, status |-> 0, len |-> 0]
NoSnapshot == [requestState |-> "none", httpStatus |-> 0, pageSize |-> 0, pageRemaining |-> 0]
\* the fields of t's control the requests write
Ctrl(t) == [requestState |-> requestState[t], httpStatus |-> httpStatus[t],
            pageSize |-> pageSize[t], pageRemaining |-> pageRemaining[t]]

MIN(x, y) == IF x < y THEN x ELSE y

Take(buf, n) == SubSeq(buf, 1, MIN(n, Len(buf)))
Drop(buf, n) == SubSeq(buf, MIN(n, Len(buf)) + 1, Len(buf))

\* the decimal digits of n, as the modem prints a number
RECURSIVE ToDigits(_)
ToDigits(n) == IF n < 10 THEN <<48 + n>> ELSE Append(ToDigits(n \div 10), 48 + (n % 10))

Cmd(name, arg) == [cmd |-> name, arg |-> arg]

\* no request has been created
NoRqst == [buf |-> <<>>, sz |-> 0, headersLen |-> 0, contentLen |-> 0]
NoBuild == [op |-> "none", type |-> "", map |-> 0, text |-> <<>>, url |-> <<>>, lines |-> <<>>]

(***************************************************************************)
(* http_initControl: the control after construction.                       *)
(***************************************************************************)
http_initControl ==
    /\ requestState = [t \in Tasks |-> "idle"]
    /\ httpStatus = [t \in Tasks |-> 65535]
    /\ pageSize = [t \in Tasks |-> 0]
    /\ pageRemaining = [t \in Tasks |-> 0]
    /\ useTls = [t \in Tasks |-> FALSE]
    /\ hostPort = [t \in Tasks |-> 0]
    /\ hostUrl = [t \in Tasks |-> ""]

EngineInit ==
    /\ http_initControl
    /\ pc = [t \in Tasks |-> "idle"]
    /\ call = [t \in Tasks |-> NoCall]
    /\ ret = [t \in Tasks |-> 0]
    /\ sent = [t \in Tasks |-> <<>>]
    /\ lockTried = [t \in Tasks |-> FALSE]
    /\ isOpenLocked = NoTask
    /\ autoLock = FALSE
    /\ dataMode = [cntxt |-> NoTask, hndlr |-> "none"]
    /\ respHdrOpt = 0
    /\ reqHdrOpt = 0
    /\ faulted = FALSE
    /\ atcmdResult = 0
    /\ atcmdResponse = NoTrailer
    /\ entryCtrl = [t \in Tasks |-> NoSnapshot]


(***************************************************************************)
(* AT-command dispatcher, as ltemc-http.c uses it.  ATCMD_awaitLock takes  *)
(* the lock when it is free and gives up after the timeout when it is not; *)
(* atcmd_tryInvoke fails when the lock is held, and otherwise takes it in  *)
(* automatic mode (the dispatcher drops it when the result is in);         *)
(* atcmd_invokeReuseLock keeps the caller's lock (manual mode);            *)
(* atcmd_close drops the lock.                                             *)
(***************************************************************************)
Running == ~faulted

atcmd_lockFree == isOpenLocked = NoTask

atcmd_close == NoTask

\* the holder of the lock after atcmd_awaitResult returned to task t
atcmd_awaitResult_lock(t) == IF autoLock THEN NoTask ELSE isOpenLocked

\* a call of t ends: it returns r
Return(t, r) ==
    /\ pc' = [pc EXCEPT ![t] = "done"]
    /\ ret' = [ret EXCEPT ![t] = r]

Issue(t, c) == sent' = [sent EXCEPT ![t] = Append(@, c)]

\* a command other than the method command was awaited and ended with r
Awaited(r) ==
    /\ atcmdResult' = r
    /\ atcmdResponse' = NoTrailer

\* the method command was awaited and answered with trailer tr
AwaitedTrailer(tr) ==
    /\ atcmdResult' = tr.rslt
    /\ atcmdResponse' = tr

(***************************************************************************)
(* http_setConnection                                                      *)
(***************************************************************************)
\* the 5th character of the urls a caller passes
\* hostPort: 0 asks for the default port of the url's scheme
HostPorts == {0, 8080}
Urls == {"http://host", "https://host", "HTTP://host", "HTTPS://host"}
Url5th(url) ==
    CASE url = "http://host" -> ":"
      [] url = "https://host" -> "s"
      [] url = "HTTP://host" -> ":"
      [] url = "HTTPS://host" -> "S"

\* only the lower-case 's' is taken for the TLS prefix
http_setConnection_lowerCaseOnly(t, url, port) ==
    /\ Running
    /\ pc[t] \in Ready
    /\ port = 0 \/ port >= 80
    /\ call' = [call EXCEPT ![t] = [NoCall EXCEPT !.op = "setConnection", !.port = port]]
    /\ hostUrl' = [hostUrl EXCEPT ![t] = url]
    /\ useTls' = [useTls EXCEPT ![t] = Url5th(url) = "s"]
    /\ hostPort' = [hostPort EXCEPT ![t] =
                        IF port = 0
                        THEN (IF Url5th(url) = "s" THEN 443 ELSE 80)
                        ELSE @]
    /\ UNCHANGED <<pc, ret, sent, lockTried, ctrlVars, isOpenLocked, autoLock,
                   dataMode, modemVars, faulted, atcmdVars, entryCtrl>>
    /\ UNCHANGED <<pumpVars, rqstVars>>

http_setConnection(t, url, port) ==
    /\ Running
    /\ pc[t] \in Ready
    /\ port = 0 \/ port >= 80
    /\ call' = [call EXCEPT ![t] = [NoCall EXCEPT !.op = "setConnection", !.port = port]]
    /\ hostUrl' = [hostUrl EXCEPT ![t] = url]
    /\ useTls' = [useTls EXCEPT ![t] = Url5th(url) \in {"S", "s"}]
    /\ hostPort' = [hostPort EXCEPT ![t] =
                        IF port = 0
                        THEN (IF Url5th(url) \in {"S", "s"} THEN 443 ELSE 80)
                        ELSE @]
    /\ UNCHANGED <<pc, ret, sent, lockTried, ctrlVars, isOpenLocked, autoLock,
                   dataMode, modemVars, faulted, atcmdVars, entryCtrl>>
    /\ UNCHANGED <<pumpVars, rqstVars>>

(***************************************************************************)
(* Entry of S__httpGET / S__httpPOST / http_postFile: the control is reset *)
(* before the lock is asked for.                                           *)
(***************************************************************************)
RequestEntry(t, op, custom, hdrLen, respHdrs, body) ==
    /\ Running
    /\ pc[t] \in Ready
    /\ call' = [call EXCEPT ![t] = [op |-> op, custom |-> custom, hdrLen |-> hdrLen,
                                    respHdrs |-> respHdrs, body |-> body,
                                    port |-> 0]]
    /\ requestState' = [requestState EXCEPT ![t] = "idle"]
    /\ httpStatus' = [httpStatus EXCEPT ![t] = resultCode__unknown]
    /\ pc' = [pc EXCEPT ![t] = "awaitLock"]
    /\ sent' = [sent EXCEPT ![t] = <<>>]
    /\ ret' = [ret EXCEPT ![t] = 0]
    /\ lockTried' = [lockTried EXCEPT ![t] = FALSE]
    /\ entryCtrl' = [entryCtrl EXCEPT ![t] = Ctrl(t)]
    /\ UNCHANGED <<pageSize, pageRemaining, connVars, isOpenLocked, autoLock,
                   dataMode, modemVars, faulted, atcmdVars>>
    /\ UNCHANGED <<pumpVars, rqstVars>>

http_get(t, respHdrs) == RequestEntry(t, "get", FALSE, 0, respHdrs, NoBody)

http_getCustomRequest(t, hdrLen, respHdrs) ==
    RequestEntry(t, "getCustom", TRUE, hdrLen, respHdrs, NoBody)

http_post(t, body, respHdrs) == RequestEntry(t, "post", FALSE, 0, respHdrs, body)

http_postCustomRequest(t, hdrLen, body, respHdrs) ==
    RequestEntry(t, "postCustom", TRUE, hdrLen, respHdrs, body)

http_postFile(t, respHdrs) == RequestEntry(t, "postFile", FALSE, 0, respHdrs, NoBody)

\* the step that follows a successful step of the common part
AfterRespHdr(t) == IF useTls[t] THEN "tls" ELSE "url"
AfterLock(t) == IF call[t].respHdrs THEN "respHdr" ELSE AfterRespHdr(t)
AfterUrl(t) ==
    IF call[t].op \in GetOps THEN "getInvoke"
    ELSE IF call[t].op \in PostOps THEN "postInvoke" ELSE "fileReqHdr"

(***************************************************************************)
(* if (ATCMD_awaitLock(httpCtrl->timeoutSec)) ... return resultCode__timeout *)
(***************************************************************************)
\* the sequence is run whatever ATCMD_awaitLock answered
AwaitLock_ignored(t) ==
    /\ Running
    /\ pc[t] = "awaitLock"
    /\ isOpenLocked' = IF atcmd_lockFree THEN t ELSE isOpenLocked
    /\ lockTried' = [lockTried EXCEPT ![t] = TRUE]
    /\ pc' = [pc EXCEPT ![t] = AfterLock(t)]
    /\ entryCtrl' = [entryCtrl EXCEPT ![t] = NoSnapshot]
    /\ UNCHANGED <<call, ret, sent, ctrlVars, connVars, autoLock, dataMode, modemVars, faulted,
                   atcmdVars>>
    /\ UNCHANGED <<pumpVars, rqstVars>>

AwaitLock_acquired(t) ==
    /\ Running
    /\ pc[t] = "awaitLock"
    /\ atcmd_lockFree
    /\ isOpenLocked' = t
    /\ lockTried' = [lockTried EXCEPT ![t] = TRUE]
    /\ pc' = [pc EXCEPT ![t] = AfterLock(t)]
    /\ entryCtrl' = [entryCtrl EXCEPT ![t] = NoSnapshot]
    /\ UNCHANGED <<call, ret, sent, ctrlVars, connVars, autoLock, dataMode, modemVars, faulted,
                   atcmdVars>>
    /\ UNCHANGED <<pumpVars, rqstVars>>

AwaitLock_timeout(t) ==
    /\ Running
    /\ pc[t] = "awaitLock"
    /\ ~atcmd_lockFree
    /\ lockTried' = [lockTried EXCEPT ![t] = TRUE]
    /\ Return(t, resultCode__timeout)
    /\ entryCtrl' = [entryCtrl EXCEPT ![t] = NoSnapshot]
    /\ UNCHANGED <<call, sent, ctrlVars, connVars, isOpenLocked, autoLock, dataMode,
                   modemVars, faulted, atcmdVars>>
    /\ UNCHANGED <<pumpVars, rqstVars>>

(***************************************************************************)
(* A configuration sub-step: the command is issued under the held lock and *)
(* its result awaited; a result other than success closes the lock and is  *)
(* returned.                                                               *)
(***************************************************************************)
SubStep(t, c, r, next) ==
    /\ Issue(t, c)
    /\ autoLock' = FALSE
    /\ Awaited(r)
    /\ IF r # resultCode__success
       THEN /\ isOpenLocked' = atcmd_close
            /\ Return(t, r)
       ELSE /\ isOpenLocked' = isOpenLocked
            /\ pc' = [pc EXCEPT ![t] = next]
            /\ ret' = ret

ConfigResponseHeader(t, r) ==
    /\ Running
    /\ pc[t] = "respHdr"
    /\ SubStep(t, Cmd("QHTTPCFG responseheader", ctrl_returnResponseHdrs), r, AfterRespHdr(t))
    /\ respHdrOpt' = IF r = resultCode__success THEN ctrl_returnResponseHdrs ELSE respHdrOpt
    /\ UNCHANGED <<call, lockTried, ctrlVars, connVars, dataMode, reqHdrOpt, faulted, entryCtrl>>
    /\ UNCHANGED <<pumpVars, rqstVars>>

\* the result of the sslctxid command is not looked at
ConfigSslCtx_ignored(t, r) ==
    /\ Running
    /\ pc[t] = "tls"
    /\ Issue(t, Cmd("QHTTPCFG sslctxid", t))
    /\ autoLock' = FALSE
    /\ Awaited(r)
    /\ pc' = [pc EXCEPT ![t] = "url"]
    /\ UNCHANGED <<call, ret, lockTried, ctrlVars, connVars, isOpenLocked, dataMode, modemVars,
                   faulted, entryCtrl>>
    /\ UNCHANGED <<pumpVars, rqstVars>>

ConfigSslCtx(t, r) ==
    /\ Running
    /\ pc[t] = "tls"
    /\ SubStep(t, Cmd("QHTTPCFG sslctxid", t), r, "url")
    /\ UNCHANGED <<call, lockTried, ctrlVars, connVars, dataMode, modemVars, faulted, entryCtrl>>
    /\ UNCHANGED <<pumpVars, rqstVars>>

\* a failed S__setUrl is returned without atcmd_close()
S__setUrl_noClose(t, r) ==
    /\ Running
    /\ pc[t] = "url"
    /\ Issue(t, Cmd("QHTTPURL", "url"))
    /\ autoLock' = FALSE
    /\ Awaited(r)
    /\ IF r # resultCode__success
       THEN Return(t, r)
       ELSE /\ pc' = [pc EXCEPT ![t] = AfterUrl(t)]
            /\ ret' = ret
    /\ dataMode' = [cntxt |-> "0", hndlr |-> "atcmd_stdTxDataHndlr"]
    /\ UNCHANGED <<call, lockTried, ctrlVars, connVars, isOpenLocked, modemVars, faulted,
                   entryCtrl>>
    /\ UNCHANGED <<pumpVars, rqstVars>>

S__setUrl(t, r) ==
    /\ Running
    /\ pc[t] = "url"
    /\ SubStep(t, Cmd("QHTTPURL", "url"), r, AfterUrl(t))
    /\ dataMode' = [cntxt |-> "0", hndlr |-> "atcmd_stdTxDataHndlr"]
    /\ UNCHANGED <<call, lockTried, ctrlVars, connVars, modemVars, faulted, entryCtrl>>
    /\ UNCHANGED <<pumpVars, rqstVars>>


(***************************************************************************)
(* S__parseResponseForHttpStatus and the handling of the awaited trailer.  *)
(***************************************************************************)
\* the upper end of the success range is left out
InSuccessRange_maxExcluded(v) == v >= resultCode__success /\ v < resultCode__successMax

InSuccessRange(v) == v >= resultCode__success /\ v <= resultCode__successMax

\* httpCtrl->httpStatus after the parse (a uint16_t)
S__parseResponseForHttpStatus(tr) ==
    IF tr.hasStatus THEN tr.status % 65536 ELSE resultCode__preConditionFailed

\* the page fields after the parse
ParsedPage(t, tr) ==
    /\ pageSize' = [pageSize EXCEPT ![t] = IF tr.hasStatus THEN tr.len ELSE @]
    /\ pageRemaining' = [pageRemaining EXCEPT ![t] = IF tr.hasStatus THEN tr.len ELSE @]

\* rslt == success && atcmd_getValue() == 0: the status is parsed and recorded
TrailerParsed(t, tr) ==
    /\ httpStatus' = [httpStatus EXCEPT ![t] = S__parseResponseForHttpStatus(tr)]
    /\ requestState' = [requestState EXCEPT ![t] =
                            IF InSuccessRange(S__parseResponseForHttpStatus(tr))
                            THEN "requestComplete" ELSE @]
    /\ ParsedPage(t, tr)

\* the failure branch: the request is idle and v is recorded
TrailerFailed(t, v) ==
    /\ httpStatus' = [httpStatus EXCEPT ![t] = v]
    /\ requestState' = [requestState EXCEPT ![t] = "idle"]
    /\ UNCHANGED <<pageSize, pageRemaining>>

\* atcmd_close(); return httpCtrl->httpStatus;
CloseAndReturnStatus(t) ==
    /\ isOpenLocked' = atcmd_close
    /\ pc' = [pc EXCEPT ![t] = "done"]
    /\ ret' = [ret EXCEPT ![t] = httpStatus'[t]]

(***************************************************************************)
(* S__httpGET: the invoke step and the trailer.                            *)
(***************************************************************************)
GetUsesRequestHeader(t) == ~call[t].custom \/ call[t].hdrLen = 0

\* if (customRequest == NULL || customRequest->headersLen == 0): the
\* requestheader option is set, then customRequest's buffer and headersLen are
\* read to configure data mode and to issue the GET; with customRequest == NULL
\* that read is through a null pointer.
S__httpGET_requestHeader(t, r, fault, g) ==
    /\ Running
    /\ pc[t] = "getInvoke"
    /\ GetUsesRequestHeader(t)
    /\ autoLock' = FALSE
    /\ Awaited(r)
    /\    IF r # resultCode__success
          THEN /\ ~fault /\ g = 0
               /\ Issue(t, Cmd("QHTTPCFG requestheader", 1))
               /\ isOpenLocked' = atcmd_close
               /\ Return(t, r)
               /\ UNCHANGED <<dataMode, reqHdrOpt, faulted>>
          ELSE IF call[t].custom
          THEN /\ ~fault /\ g = 0
               /\ sent' = [sent EXCEPT ![t] =
                              @ \o <<Cmd("QHTTPCFG requestheader", 1),
                                     Cmd("QHTTPGET hdrLen", call[t].hdrLen)>>]
               /\ dataMode' = [cntxt |-> t, hndlr |-> "atcmd_stdTxDataHndlr"]
               /\ reqHdrOpt' = 1
               /\ pc' = [pc EXCEPT ![t] = "getTrailer"]
               /\ UNCHANGED <<ret, isOpenLocked, faulted>>
          ELSE IF fault
          THEN /\ g = 0
               /\ Issue(t, Cmd("QHTTPCFG requestheader", 1))
               /\ reqHdrOpt' = 1
               /\ faulted' = TRUE
               /\ pc' = [pc EXCEPT ![t] = "fault"]
               /\ UNCHANGED <<ret, isOpenLocked, dataMode>>
          ELSE /\ sent' = [sent EXCEPT ![t] =
                              @ \o <<Cmd("QHTTPCFG requestheader", 1),
                                     Cmd("QHTTPGET hdrLen", g)>>]
               /\ dataMode' = [cntxt |-> t, hndlr |-> "atcmd_stdTxDataHndlr"]
               /\ reqHdrOpt' = 1
               /\ pc' = [pc EXCEPT ![t] = "getTrailer"]
               /\ UNCHANGED <<ret, isOpenLocked, faulted>>
    /\ UNCHANGED <<call, lockTried, ctrlVars, connVars, respHdrOpt, entryCtrl>>
    /\ UNCHANGED <<pumpVars, rqstVars>>

\* else: the GET is issued with the timeout only
S__httpGET_plain(t) ==
    /\ Running
    /\ pc[t] = "getInvoke"
    /\ ~GetUsesRequestHeader(t)
    /\ Issue(t, Cmd("QHTTPGET", 0))
    /\ autoLock' = FALSE
    /\ pc' = [pc EXCEPT ![t] = "getTrailer"]
    /\ UNCHANGED <<call, ret, lockTried, ctrlVars, connVars, isOpenLocked, dataMode,
                   modemVars, faulted, atcmdVars, entryCtrl>>
    /\ UNCHANGED <<pumpVars, rqstVars>>

\* the wait for "+QHTTPGET: " and what follows it
S__httpGET_trailer(t, tr) ==
    /\ Running
    /\ pc[t] = "getTrailer"
    /\ IF tr.rslt = resultCode__success /\ tr.err = 0
       THEN TrailerParsed(t, tr)
       ELSE TrailerFailed(t, tr.err)
    /\ CloseAndReturnStatus(t)
    /\ AwaitedTrailer(tr)
    /\ UNCHANGED <<call, sent, lockTried, connVars, autoLock, dataMode, modemVars, faulted,
                   entryCtrl>>
    /\ UNCHANGED <<pumpVars, rqstVars>>


(***************************************************************************)
(* S__httpPOST: the invoke step and the trailer.                           *)
(***************************************************************************)
\* char contentLengthVal[5] after snprintf(contentLengthVal, 5, "%5d", contentLen):
\* snprintf writes at most size - 1 = 4 characters of the text and then a zero
contentLengthVal(contentLen) ==
    LET digits == ToDigits(contentLen)
        text == [i \in 1..(5 - MIN(5, Len(digits))) |-> 32] \o digits
    IN  Take(text, 4) \o <<0>>

\* memcpy(requestBuffer + headersLen - 9, contentLengthVal, 5) on request r; with
\* headersLen < 9 the 5 bytes land in front of the buffer
PatchContentLength(r) ==
    IF r.headersLen >= 9
    THEN [r EXCEPT !.buf = Take(r.buf, r.headersLen - 9) \o contentLengthVal(r.contentLen)
                           \o Drop(r.buf, r.headersLen - 4)]
    ELSE r

\* if (customRequest != NULL): requestheader is set, the Content-Length field
\* patched, and the POST issued with strlen(postData); http_postCustomRequest
\* passes postData == NULL, so that strlen reads through a null pointer.  The
\* request is rqst when the caller has composed one.
S__httpPOST_custom(t, r, fault, g) ==
    /\ Running
    /\ pc[t] = "postInvoke"
    /\ call[t].custom
    /\ autoLock' = FALSE
    /\ Awaited(r)
    /\ rqst' = IF r = resultCode__success /\ rqst # NoRqst THEN PatchContentLength(rqst) ELSE rqst
    /\    IF r # resultCode__success
          THEN /\ ~fault /\ g = 0
               /\ Issue(t, Cmd("QHTTPCFG requestheader", 1))
               /\ isOpenLocked' = atcmd_close
               /\ Return(t, r)
               /\ UNCHANGED <<dataMode, reqHdrOpt, faulted>>
          ELSE IF fault
          THEN /\ g = 0
               /\ Issue(t, Cmd("QHTTPCFG requestheader", 1))
               /\ dataMode' = [cntxt |-> t, hndlr |-> "atcmd_stdTxDataHndlr"]
               /\ reqHdrOpt' = 1
               /\ faulted' = TRUE
               /\ pc' = [pc EXCEPT ![t] = "fault"]
               /\ UNCHANGED <<ret, isOpenLocked>>
          ELSE /\ sent' = [sent EXCEPT ![t] =
                              @ \o <<Cmd("QHTTPCFG requestheader", 1), Cmd("QHTTPPOST", g)>>]
               /\ dataMode' = [cntxt |-> t, hndlr |-> "atcmd_stdTxDataHndlr"]
               /\ reqHdrOpt' = 1
               /\ pc' = [pc EXCEPT ![t] = "postTrailer"]
               /\ UNCHANGED <<ret, isOpenLocked, faulted>>
    /\ UNCHANGED <<call, lockTried, ctrlVars, connVars, respHdrOpt, entryCtrl>>
    /\ UNCHANGED <<pumpVars, asserted, bcall, nCalls, log>>

\* else: the raw body is the data-mode payload; the length is strlen(postData)
S__httpPOST_inline(t) ==
    /\ Running
    /\ pc[t] = "postInvoke"
    /\ ~call[t].custom
    /\ Issue(t, Cmd("QHTTPPOST", call[t].body.strlen))
    /\ autoLock' = FALSE
    /\ dataMode' = [cntxt |-> t, hndlr |-> "atcmd_stdTxDataHndlr"]
    /\ pc' = [pc EXCEPT ![t] = "postTrailer"]
    /\ UNCHANGED <<call, ret, lockTried, ctrlVars, connVars, isOpenLocked, modemVars, faulted,
                   atcmdVars, entryCtrl>>
    /\ UNCHANGED <<pumpVars, rqstVars>>

\* the trailer handling S__httpPOST and http_postFile share
PostTrailerOutcome(t, tr) ==
    IF tr.rslt = resultCode__success
    THEN IF tr.err = 0
         THEN TrailerParsed(t, tr)
         ELSE TrailerFailed(t, tr.rslt)
    ELSE /\ httpStatus' = [httpStatus EXCEPT ![t] = resultCode__internalError]
         /\ UNCHANGED <<requestState, pageSize, pageRemaining>>

S__httpPOST_trailer(t, tr) ==
    /\ Running
    /\ pc[t] = "postTrailer"
    /\ PostTrailerOutcome(t, tr)
    /\ CloseAndReturnStatus(t)
    /\ AwaitedTrailer(tr)
    /\ UNCHANGED <<call, sent, lockTried, connVars, autoLock, dataMode, modemVars, faulted,
                   entryCtrl>>
    /\ UNCHANGED <<pumpVars, rqstVars>>

(***************************************************************************)
(* http_postFile: requestheader, POSTFILE and the trailer.                 *)
(***************************************************************************)
http_postFile_requestHeader(t, r) ==
    /\ Running
    /\ pc[t] = "fileReqHdr"
    /\ autoLock' = FALSE
    /\ Awaited(r)
    /\    IF r # resultCode__success
          THEN /\ Issue(t, Cmd("QHTTPCFG requestheader", 1))
               /\ isOpenLocked' = atcmd_close
               /\ Return(t, r)
               /\ UNCHANGED reqHdrOpt
          ELSE /\ sent' = [sent EXCEPT ![t] =
                              @ \o <<Cmd("QHTTPCFG requestheader", 1), Cmd("QHTTPPOSTFILE", 15)>>]
               /\ reqHdrOpt' = 1
               /\ pc' = [pc EXCEPT ![t] = "fileTrailer"]
               /\ UNCHANGED <<ret, isOpenLocked>>
    /\ UNCHANGED <<call, lockTried, ctrlVars, connVars, dataMode, respHdrOpt, faulted, entryCtrl>>
    /\ UNCHANGED <<pumpVars, rqstVars>>

http_postFile_trailer(t, tr) ==
    /\ Running
    /\ pc[t] = "fileTrailer"
    /\ PostTrailerOutcome(t, tr)
    /\ CloseAndReturnStatus(t)
    /\ AwaitedTrailer(tr)
    /\ UNCHANGED <<call, sent, lockTried, connVars, autoLock, dataMode, modemVars, faulted,
                   entryCtrl>>
    /\ UNCHANGED <<pumpVars, rqstVars>>



(***************************************************************************)
(* Bytes on the link are their ASCII codes.                                *)
(***************************************************************************)
\* "\r\nOK\r\n\r\n"
TerminalMarker == <<13, 10, 79, 75, 13, 10, 13, 10>>
\* "+QHTTPREAD: "
ReadPrefix == <<43, 81, 72, 84, 84, 80, 82, 69, 65, 68, 58, 32>>
\* "CONNECT\r\n"
ConnectLine == <<67, 79, 78, 78, 69, 67, 84, 13, 10>>
\* "CONNECT": the data-mode trigger http_readPage configures
ConnectTrigger == <<67, 79, 78, 78, 69, 67, 84>>

\* sizeof(wrkBffr)
wrkBffrSz == 32
\* sizeof("+QHTTPREAD: "): the 12 characters and the terminating zero
sizeofReadPrefix == Len(ReadPrefix) + 1
\* bbffr_find's result when the needle is not in the buffer
BBFFR_NOTFOUND == 65535
\* bbffr_getCapacity(g_lqLTEM.iop->rxBffr)
rxBffrCapacity == 64
\* httpCtrl->defaultBlockSz
defaultBlockSz == rxBffrCapacity \div 4
\* bodies are up to this much longer than defaultBlockSz
ExtraBody == 2

\* the body of a page: len distinct letters
Body(len) == [i \in 1..len |-> 96 + i]

\* what the modem sends after AT+QHTTPREAD for page p
Stream(p) ==
    ConnectLine \o Body(p.len) \o TerminalMarker \o ReadPrefix \o ToDigits(p.err) \o <<13, 10>>

\* <err> values of the read trailer
ReadErrs == {0, 5, 42, 703}
\* body lengths: short ones, and those around defaultBlockSz
BodyLens == (0..2) \cup ((defaultBlockSz - 1)..(defaultBlockSz + ExtraBody))
Pages == [len : BodyLens, err : ReadErrs]
NoPage == [len |-> 0, err |-> 0]
\* what an out-of-object read may be parsed to
GarbageErrs == {0, 47}

(***************************************************************************)
(* Ring buffer (bbffr): bbffr_find gives the offset of the first match of  *)
(* the needle from the tail, bbffr_pop and bbffr_popBlock take bytes from  *)
(* the tail, at most as many as are buffered.                              *)
(***************************************************************************)
bbffr_find(buf, needle) ==
    LET at == {i \in 0..(Len(buf) - Len(needle)) :
                   SubSeq(buf, i + 1, i + Len(needle)) = needle}
    IN IF at = {} THEN BBFFR_NOTFOUND
       ELSE CHOOSE i \in at : \A j \in at : i <= j

BBFFR_ISFOUND(x) == x # BBFFR_NOTFOUND

bbffr_getOccupied(buf) == Len(buf)

\* strchr(s, c) != NULL
strchr(str, c) == \E i \in 1..Len(str) : str[i] = c

\* strtol(s, NULL, 10): white space, an optional sign, then decimal digits
IsSpace(c) == c = 32 \/ (c >= 9 /\ c <= 13)
IsDigit(c) == c >= 48 /\ c <= 57
RECURSIVE ParseDigits(_, _)
ParseDigits(str, acc) ==
    IF str = <<>> \/ ~IsDigit(Head(str)) THEN acc
    ELSE ParseDigits(Tail(str), acc * 10 + (Head(str) - 48))
RECURSIVE strtol(_)
strtol(str) ==
    IF str = <<>> THEN 0
    ELSE IF IsSpace(Head(str)) THEN strtol(Tail(str))
    ELSE IF Head(str) = 45 THEN 0 - ParseDigits(Tail(str), 0)
    ELSE IF Head(str) = 43 THEN ParseDigits(Tail(str), 0)
    ELSE ParseDigits(str, 0)



(***************************************************************************)
(* http_readPage                                                           *)
(***************************************************************************)
\* the READ command is issued under a lock taken with ATCMD_awaitLock and
\* atcmd_invokeReuseLock, as the requests do, and no atcmd_close() is added
http_readPage_reuseLock(t, p) ==
    /\ Running
    /\ pc[t] \in Ready
    /\ call' = [call EXCEPT ![t] = [NoCall EXCEPT !.op = "readPage"]]
    /\ IF requestState[t] # "requestComplete"
       THEN /\ Return(t, resultCode__preConditionFailed)
            /\ sent' = [sent EXCEPT ![t] = <<>>]
            /\ lockTried' = [lockTried EXCEPT ![t] = FALSE]
            /\ UNCHANGED <<isOpenLocked, autoLock, dataMode, pumpVars>>
       ELSE IF atcmd_lockFree
       THEN /\ isOpenLocked' = t
            /\ autoLock' = FALSE
            /\ lockTried' = [lockTried EXCEPT ![t] = TRUE]
            /\ sent' = [sent EXCEPT ![t] = <<Cmd("QHTTPREAD", 0)>>]
            /\ dataMode' = [cntxt |-> t, hndlr |-> "S__httpRxHndlr"]
            /\ pc' = [pc EXCEPT ![t] = "readAwait"]
            /\ ret' = [ret EXCEPT ![t] = 0]
            /\ rxBffr' = <<>>
            /\ inbound' = Stream(p)
            /\ wrkBffr' = <<>>
            /\ delivered' = <<>>
            /\ pumpPc' = "armed"
            /\ pumpRslt' = 0
            /\ page' = p
            /\ wholeAtStart' = FALSE
       ELSE /\ Return(t, resultCode__conflict)
            /\ sent' = [sent EXCEPT ![t] = <<>>]
            /\ lockTried' = [lockTried EXCEPT ![t] = TRUE]
            /\ UNCHANGED <<isOpenLocked, autoLock, dataMode, pumpVars>>
    /\ UNCHANGED <<ctrlVars, connVars, modemVars, faulted, atcmdVars, entryCtrl, rqstVars>>

\* p is the page the modem will stream if the READ command is accepted
http_readPage(t, p) ==
    /\ Running
    /\ pc[t] \in Ready
    /\ call' = [call EXCEPT ![t] = [NoCall EXCEPT !.op = "readPage"]]
    /\ IF requestState[t] # "requestComplete"
       THEN /\ Return(t, resultCode__preConditionFailed)
            /\ sent' = [sent EXCEPT ![t] = <<>>]
            /\ lockTried' = [lockTried EXCEPT ![t] = FALSE]
            /\ UNCHANGED <<isOpenLocked, autoLock, dataMode, pumpVars>>
       ELSE IF atcmd_lockFree
       THEN /\ isOpenLocked' = t
            /\ autoLock' = TRUE
            /\ lockTried' = [lockTried EXCEPT ![t] = TRUE]
            /\ sent' = [sent EXCEPT ![t] = <<Cmd("QHTTPREAD", 0)>>]
            /\ dataMode' = [cntxt |-> t, hndlr |-> "S__httpRxHndlr"]
            /\ pc' = [pc EXCEPT ![t] = "readAwait"]
            /\ ret' = [ret EXCEPT ![t] = 0]
            /\ rxBffr' = <<>>
            /\ inbound' = Stream(p)
            /\ wrkBffr' = <<>>
            /\ delivered' = <<>>
            /\ pumpPc' = "armed"
            /\ pumpRslt' = 0
            /\ page' = p
            /\ wholeAtStart' = FALSE
       ELSE /\ Return(t, resultCode__conflict)
            /\ sent' = [sent EXCEPT ![t] = <<>>]
            /\ lockTried' = [lockTried EXCEPT ![t] = TRUE]
            /\ UNCHANGED <<isOpenLocked, autoLock, dataMode, pumpVars>>
    /\ UNCHANGED <<ctrlVars, connVars, modemVars, faulted, atcmdVars, entryCtrl, rqstVars>>

\* the receive side once the command has ended: nothing buffered, no handler running
PumpOff ==
    /\ rxBffr' = <<>>
    /\ inbound' = <<>>
    /\ wrkBffr' = <<>>
    /\ delivered' = <<>>
    /\ pumpPc' = "off"
    /\ pumpRslt' = 0
    /\ page' = NoPage
    /\ wholeAtStart' = FALSE

\* return atcmd_awaitResult(): the command ended without the CONNECT prompt
http_readPage_noConnect(t, r) ==
    /\ Running
    /\ pc[t] = "readAwait"
    /\ pumpPc = "armed"
    /\ rxBffr = <<>>
    /\ r # resultCode__success
    /\ Return(t, r)
    /\ Awaited(r)
    /\ isOpenLocked' = atcmd_awaitResult_lock(t)
    /\ PumpOff
    /\ UNCHANGED <<call, sent, lockTried, ctrlVars, connVars, autoLock, dataMode, modemVars,
                   faulted, entryCtrl, rqstVars>>

\* return atcmd_awaitResult(): the data handler's result is the command's result
http_readPage_return(t) ==
    /\ Running
    /\ pc[t] = "readAwait"
    /\ pumpPc = "done"
    /\ Return(t, pumpRslt)
    /\ Awaited(pumpRslt)
    /\ isOpenLocked' = atcmd_awaitResult_lock(t)
    /\ PumpOff
    /\ UNCHANGED <<call, sent, lockTried, ctrlVars, connVars, autoLock, dataMode, modemVars,
                   faulted, entryCtrl, rqstVars>>

(***************************************************************************)
(* http_readPageToFile                                                     *)
(***************************************************************************)
\* the awaited "+QHTTPREADFILE: " result: long is strlen(raw response) >
\* sizeof("AT+QHTTPREADFILE: 0"), zero is *atcmd_getResponse() == '0'
FileResults == [rslt : CmdResults, long : BOOLEAN, zero : BOOLEAN]

\* the READFILE command is tried without the test of requestState
http_readPageToFile_noPrecondition(t) ==
    /\ Running
    /\ pc[t] \in Ready
    /\ call' = [call EXCEPT ![t] = [NoCall EXCEPT !.op = "readPageToFile"]]
    /\ IF atcmd_lockFree
       THEN /\ isOpenLocked' = t
            /\ autoLock' = TRUE
            /\ lockTried' = [lockTried EXCEPT ![t] = TRUE]
            /\ sent' = [sent EXCEPT ![t] = <<Cmd("QHTTPREADFILE", 0)>>]
            /\ pc' = [pc EXCEPT ![t] = "readFileAwait"]
            /\ ret' = [ret EXCEPT ![t] = 0]
       ELSE /\ Return(t, resultCode__conflict)
            /\ sent' = [sent EXCEPT ![t] = <<>>]
            /\ lockTried' = [lockTried EXCEPT ![t] = TRUE]
            /\ UNCHANGED <<isOpenLocked, autoLock>>
    /\ UNCHANGED <<ctrlVars, connVars, dataMode, modemVars, faulted, atcmdVars, entryCtrl,
                   pumpVars, rqstVars>>

http_readPageToFile(t) ==
    /\ Running
    /\ pc[t] \in Ready
    /\ call' = [call EXCEPT ![t] = [NoCall EXCEPT !.op = "readPageToFile"]]
    /\ IF requestState[t] # "requestComplete"
       THEN /\ Return(t, resultCode__preConditionFailed)
            /\ sent' = [sent EXCEPT ![t] = <<>>]
            /\ lockTried' = [lockTried EXCEPT ![t] = FALSE]
            /\ UNCHANGED <<isOpenLocked, autoLock>>
       ELSE IF atcmd_lockFree
       THEN /\ isOpenLocked' = t
            /\ autoLock' = TRUE
            /\ lockTried' = [lockTried EXCEPT ![t] = TRUE]
            /\ sent' = [sent EXCEPT ![t] = <<Cmd("QHTTPREADFILE", 0)>>]
            /\ pc' = [pc EXCEPT ![t] = "readFileAwait"]
            /\ ret' = [ret EXCEPT ![t] = 0]
       ELSE /\ Return(t, resultCode__conflict)
            /\ sent' = [sent EXCEPT ![t] = <<>>]
            /\ lockTried' = [lockTried EXCEPT ![t] = TRUE]
            /\ UNCHANGED <<isOpenLocked, autoLock>>
    /\ UNCHANGED <<ctrlVars, connVars, dataMode, modemVars, faulted, atcmdVars, entryCtrl,
                   pumpVars, rqstVars>>

http_readPageToFile_result(t, fr) ==
    /\ Running
    /\ pc[t] = "readFileAwait"
    /\ Return(t, IF InSuccessRange(fr.rslt)
                 THEN (IF fr.long /\ fr.zero THEN resultCode__success
                       ELSE resultCode__internalError)
                 ELSE resultCode__extendedBase + fr.rslt)
    /\ Awaited(fr.rslt)
    /\ isOpenLocked' = atcmd_awaitResult_lock(t)
    /\ UNCHANGED <<call, sent, lockTried, ctrlVars, connVars, autoLock, dataMode, modemVars,
                   faulted, entryCtrl, pumpVars, rqstVars>>

(***************************************************************************)
(* The receive side: bytes arrive in the ring buffer (the IOP interrupt    *)
(* handler), and the dispatcher runs S__httpRxHndlr once the data-mode     *)
(* trigger "CONNECT" is in the buffer.                                     *)
(***************************************************************************)
RxArrive(k) ==
    /\ Running
    /\ pumpPc \in {"armed", "loop"}
    /\ k >= 1
    /\ k <= Len(inbound)
    /\ Len(rxBffr) + k <= rxBffrCapacity
    /\ rxBffr' = rxBffr \o Take(inbound, k)
    /\ inbound' = Drop(inbound, k)
    /\ UNCHANGED <<engineVars, rqstVars, wrkBffr, delivered, pumpPc, pumpRslt, page, wholeAtStart>>

\* the handler up to its loop: the line up to "\r" and two more bytes are popped
S__httpRxHndlr_start(t) ==
    /\ Running
    /\ pc[t] = "readAwait"
    /\ pumpPc = "armed"
    /\ Take(rxBffr, Len(ConnectTrigger)) = ConnectTrigger
    /\ LET popCnt == bbffr_find(rxBffr, <<13>>)
       IN IF ~BBFFR_ISFOUND(popCnt)
          THEN /\ pumpRslt' = resultCode__internalError
               /\ pumpPc' = "done"
               /\ UNCHANGED rxBffr
          ELSE /\ rxBffr' = Drop(rxBffr, popCnt + 2)
               /\ pumpPc' = "loop"
               /\ UNCHANGED pumpRslt
    /\ wrkBffr' = <<>>
    /\ wholeAtStart' = BBFFR_ISFOUND(bbffr_find(rxBffr, TerminalMarker))
    /\ UNCHANGED <<engineVars, rqstVars, inbound, delivered, page>>



(***************************************************************************)
(* One pass of S__httpRxHndlr's do-while loop.                             *)
(***************************************************************************)
\* the block request of the pass
ReqstBlockSz(buf) == MIN(bbffr_find(buf, TerminalMarker), defaultBlockSz)
\* the pass forwards a block
BlockReady(buf) == bbffr_getOccupied(buf) >= ReqstBlockSz(buf)
\* the callback of the pass: the block and isFinalChunk
BlockCall(buf) ==
    [data |-> Take(buf, ReqstBlockSz(buf)),
     final |-> BBFFR_ISFOUND(bbffr_find(buf, TerminalMarker))]
\* the ring buffer after the block part of the pass
AfterBlock(buf) == IF BlockReady(buf) THEN Drop(buf, ReqstBlockSz(buf)) ELSE buf
\* wrkBffr after bbffr_pop(rxBffr, wrkBffr + offset, sizeof(wrkBffr) - offset)
WrkAfterPop(wrk, buf) == wrk \o Take(buf, wrkBffrSz - Len(wrk))
\* the text strtol is given: wrkBffr from strstr's match plus sizeof("+QHTTPREAD: ")
TrailerSuffix(wrk) == Drop(wrk, bbffr_find(wrk, ReadPrefix) + sizeofReadPrefix)
\* errVal
TrailerErrVal(wrk) == strtol(TrailerSuffix(wrk)) % 65536
\* the handler's return value for errVal
PageRslt(errVal) == IF errVal = 0 THEN resultCode__success ELSE errVal
\* The trailer part leaves defined behaviour when wrkBffr has no terminating
\* zero left (strlen, strchr and strstr run past it) or when strstr finds no
\* "+QHTTPREAD: " (strtol is then given the address NULL + 13).
TrailerUndefined(wrk) ==
    \/ Len(wrk) >= wrkBffrSz
    \/ (strchr(wrk, 10) /\ ~BBFFR_ISFOUND(bbffr_find(wrk, ReadPrefix)))

S__httpRxHndlr_pass(t, fault, g) ==
    /\ Running
    /\ pc[t] = "readAwait"
    /\ pumpPc = "loop"
    /\ delivered' = IF BlockReady(rxBffr) THEN Append(delivered, BlockCall(rxBffr))
                    ELSE delivered
    /\ IF ~BBFFR_ISFOUND(bbffr_find(rxBffr, TerminalMarker))
       THEN /\ rxBffr' = AfterBlock(rxBffr)
            /\ UNCHANGED <<wrkBffr, pumpPc, pumpRslt, faulted, pc>>
       ELSE LET wrk == WrkAfterPop(wrkBffr, AfterBlock(rxBffr))
            IN /\ rxBffr' = Drop(AfterBlock(rxBffr), wrkBffrSz - Len(wrkBffr))
               /\ wrkBffr' = wrk
               /\    IF TrailerUndefined(wrk)
                     THEN IF fault
                          THEN /\ g = 0
                               /\ faulted' = TRUE
                               /\ pc' = [pc EXCEPT ![t] = "fault"]
                               /\ UNCHANGED <<pumpPc, pumpRslt>>
                          ELSE /\ pumpRslt' = PageRslt(g)
                               /\ pumpPc' = "done"
                               /\ UNCHANGED <<faulted, pc>>
                     ELSE /\ ~fault /\ g = 0
                          /\ IF strchr(wrk, 10)
                             THEN /\ pumpRslt' = PageRslt(TrailerErrVal(wrk))
                                  /\ pumpPc' = "done"
                             ELSE UNCHANGED <<pumpPc, pumpRslt>>
                          /\ UNCHANGED <<faulted, pc>>
    /\ UNCHANGED <<call, ret, sent, lockTried, ctrlVars, connVars, isOpenLocked, autoLock,
                   dataMode, modemVars, atcmdVars, entryCtrl, inbound, page, wholeAtStart,
                   rqstVars>>


(***************************************************************************)
(* The request functions: http_createRequest, http_addCommonHdrs,          *)
(* http_addBasicAuthHdr, http_addHeader, http_addPostData.  The request    *)
(* buffer is the C string it holds (the bytes before the first zero).      *)
(***************************************************************************)
\* "\r\n"
CRLF == <<13, 10>>
\* "GET "
VerbGet == <<71, 69, 84, 32>>
\* "POST "
VerbPost == <<80, 79, 83, 84, 32>>
\* "INVALID_TYPE"
InvalidType == <<73, 78, 86, 65, 76, 73, 68, 95, 84, 89, 80, 69>>
\* " HTTP/1.1\r\nHost: "
ProtoAndHost == <<32, 72, 84, 84, 80, 47, 49, 46, 49, 13, 10, 72, 111, 115, 116, 58, 32>>
\* "Accept: */*"
HdrAccept == <<65, 99, 99, 101, 112, 116, 58, 32, 42, 47, 42>>
\* "User-Agent: QUECTEL_MODULE"
HdrUserAgent ==
    <<85, 115, 101, 114, 45, 65, 103, 101, 110, 116, 58, 32, 81, 85, 69, 67, 84, 69, 76,
      95, 77, 79, 68, 85, 76, 69>>
\* "Connection: Keep-Alive"
HdrConnection ==
    <<67, 111, 110, 110, 101, 99, 116, 105, 111, 110, 58, 32, 75, 101, 101, 112, 45, 65,
      108, 105, 118, 101>>
\* "Content-Type: application/octet-stream"
HdrContentType ==
    <<67, 111, 110, 116, 101, 110, 116, 45, 84, 121, 112, 101, 58, 32, 97, 112, 112, 108,
      105, 99, 97, 116, 105, 111, 110, 47, 111, 99, 116, 101, 116, 45, 115, 116, 114,
      101, 97, 109>>
\* "Content-Length:     0\r\n\r\n"
ContentLengthPlaceholder ==
    <<67, 111, 110, 116, 101, 110, 116, 45, 76, 101, 110, 103, 116, 104, 58, 32, 32, 32,
      32, 32, 48, 13, 10, 13, 10>>
\* "Authentication: "
AuthKey == <<65, 117, 116, 104, 101, 110, 116, 105, 99, 97, 116, 105, 111, 110, 58, 32>>
\* ": "
KeySep == <<58, 32>>

\* httpHeaderMap_t (ltemc-http.h)
httpHeaderMap_accept == 1
httpHeaderMap_userAgent == 2
httpHeaderMap_connection == 4
httpHeaderMap_contentType == 8
httpHeaderMap_all == 65535
\* http__commandHdrSz
http__commandHdrSz == 102

\* reqstBffrSz: the size of the buffer the caller gives http_createRequest
RqstBffrSz == 200
\* calls of request functions in one run
MaxCalls == 4

\* the arguments callers pass
ReqstTypes == {"GET", "POST", "OTHER"}
\* "", "h.io", "http://h.io"
Hosts == {<<>>, <<104, 46, 105, 111>>, <<104, 116, 116, 112, 58, 47, 47, 104, 46, 105, 111>>}
\* "/p"
RelativeUrls == {<<47, 112>>}
HeaderMaps == {0, 1, 2, 3, 10, 65535}
\* key "K", value "v"
HeaderArgs == {[key |-> <<75>>, val |-> <<118>>]}
\* user "u", password "p"
AuthArgs == {[user |-> <<117>>, pw |-> <<112>>]}
\* what binToB64 leaves in b64str: "dTpw" (the encoding of "u:p") when toEncode
\* happened to start with a zero byte, something else ("Pz8=") when it did not
B64Outs == {<<100, 84, 112, 119>>, <<80, 122, 56, 61>>}
\* a body that fits the buffer once and not twice
BigBodySz == 120
\* postData: "ab", an empty body, and BigBodySz times "x"
PostDatas == {<<97, 98>>, <<>>, [i \in 1..BigBodySz |-> 120]}
\* what the bytes at a wild address may hold, read as a string
GarbageHosts == {<<>>, <<63>>}

\* x & y on uint16_t
RECURSIVE BitAnd(_, _)
BitAnd(x, y) ==
    IF x = 0 \/ y = 0 THEN 0
    ELSE (x % 2) * (y % 2) + 2 * BitAnd(x \div 2, y \div 2)

\* the value of the C expression (a > b)
Gt(a, b) == IF a > b THEN 1 ELSE 0

\* COMPARES(memcmp(host, "http", 4)) || COMPARES(memcmp(host, "HTTP", 4))
HasProto(host) == Take(host, 4) \in {<<104, 116, 116, 112>>, <<72, 84, 84, 80>>}

\* *(request->requestBuffer + strlen(request->requestBuffer) - 2) = '\r'
PokeCR(buf) == [buf EXCEPT ![Len(buf) - 1] = 13]

\* memcpy(buf + off, data, Len(data))
WriteAt(buf, off, data) == Take(buf, off) \o data \o Drop(buf, off + Len(data))

\* the caller composes a request before it makes requests
Building == Running /\ ~asserted /\ nCalls < MaxCalls /\ \A t \in Tasks : pc[t] = "idle"

BuildCall(op, map, text) == [NoBuild EXCEPT !.op = op, !.map = map, !.text = text]

\* an ASSERT failed; the request is left as b (what was written before it)
AssertFails(b) ==
    /\ asserted' = TRUE
    /\ rqst' = b
    /\ UNCHANGED <<log, faulted>>

\* what the caller gave: the request type with the url, the "host", a header
\* line ("hdr"), body data ("body")
LogEntry(kind, text) == [kind |-> kind, text |-> text]

\* http_createRequest(reqstType, host, relativeUrl, reqstBffr, reqstBffrSz).
\* A host that starts with "http" makes line 127 assign the integer
\* strlen(host) + 3 to the pointer (the comma expression yields its last
\* operand): strcat then reads from that address, which faults or yields
\* whatever string g lies there.
http_createRequest(reqstType, host, relativeUrl, fault, g) ==
    /\ Building
    /\ rqst = NoRqst
    /\ nCalls' = nCalls + 1
    /\ bcall' = [BuildCall("createRequest", 0, host) EXCEPT !.type = reqstType,
                                                            !.url = relativeUrl]
    /\ log' = <<LogEntry(reqstType, relativeUrl), LogEntry("host", host)>>
    /\ IF Len(host) = 0 \/ Len(relativeUrl) = 0
       THEN /\ asserted' = TRUE
            /\ UNCHANGED <<rqst, faulted>>
       ELSE LET new == [buf |-> <<>>, sz |-> RqstBffrSz, headersLen |-> 0, contentLen |-> 0]
                verb == IF reqstType = "GET" THEN VerbGet ELSE VerbPost
            IN  IF reqstType \notin {"GET", "POST"}
                THEN /\ rqst' = [new EXCEPT !.buf = InvalidType]
                     /\ UNCHANGED <<asserted, faulted>>
                ELSE IF HasProto(host)
                THEN /\ faulted' = fault
                     /\ rqst' = [new EXCEPT !.buf = verb \o relativeUrl \o ProtoAndHost \o g]
                     /\ UNCHANGED asserted
                ELSE /\ fault = FALSE /\ g = <<>>
                     /\ rqst' = [new EXCEPT !.buf = verb \o relativeUrl \o ProtoAndHost \o host]
                     /\ UNCHANGED <<asserted, faulted>>
    /\ UNCHANGED <<serviceVars, pumpVars>>

(***************************************************************************)
(* The system: application tasks use the HTTP services of one modem.       *)
(***************************************************************************)
Init ==
    /\ EngineInit
    /\ rxBffr = <<>>
    /\ inbound = <<>>
    /\ wrkBffr = <<>>
    /\ delivered = <<>>
    /\ pumpPc = "off"
    /\ pumpRslt = 0
    /\ page = NoPage
    /\ wholeAtStart = FALSE
    /\ rqst = NoRqst
    /\ asserted = FALSE
    /\ bcall = NoBuild
    /\ nCalls = 0
    /\ log = <<>>

\* the page of the specifications that are about the requests
OnePage == {[len |-> 1, err |-> 0]}

(***************************************************************************)
(* Spec: one task, every operation, every outcome of every command.        *)
(***************************************************************************)
Next ==
    \/ \E url \in Urls, port \in HostPorts : http_setConnection("app1", url, port)
    \/ \E h \in BOOLEAN : http_get("app1", h)
    \/ \E l \in HeadersLens, h \in BOOLEAN : http_getCustomRequest("app1", l, h)
    \/ \E b \in PostBodies, h \in BOOLEAN : http_post("app1", b, h)
    \/ \E l \in HeadersLens, b \in PostBodies, h \in BOOLEAN :
          http_postCustomRequest("app1", l, b, h)
    \/ \E h \in BOOLEAN : http_postFile("app1", h)
    \/ AwaitLock_acquired("app1")
    \/ \E r \in CmdResults : ConfigResponseHeader("app1", r)
    \/ \E r \in CmdResults : ConfigSslCtx("app1", r)
    \/ \E r \in CmdResults : S__setUrl("app1", r)
    \/ \E r \in CmdResults, f \in BOOLEAN, g \in GarbageLens :
          S__httpGET_requestHeader("app1", r, f, g)
    \/ S__httpGET_plain("app1")
    \/ \E tr \in Trailers : S__httpGET_trailer("app1", tr)
    \/ \E r \in CmdResults, f \in BOOLEAN, g \in GarbageLens :
          S__httpPOST_custom("app1", r, f, g)
    \/ S__httpPOST_inline("app1")
    \/ \E tr \in Trailers : S__httpPOST_trailer("app1", tr)
    \/ \E r \in CmdResults : http_postFile_requestHeader("app1", r)
    \/ \E tr \in Trailers : http_postFile_trailer("app1", tr)
    \/ \E p \in OnePage : http_readPage("app1", p)
    \/ \E r \in CmdResults : http_readPage_noConnect("app1", r)
    \/ http_readPage_return("app1")
    \/ http_readPageToFile("app1")
    \/ \E fr \in FileResults : http_readPageToFile_result("app1", fr)
    \/ RxArrive(Len(inbound))
    \/ S__httpRxHndlr_start("app1")
    \/ \E f \in BOOLEAN, g \in GarbageErrs : S__httpRxHndlr_pass("app1", f, g)

Spec == Init /\ [][Next]_vars


(***************************************************************************)
(* SpecTwo: two tasks contend for the command lock.                        *)
(***************************************************************************)
TwoResults == {resultCode__success, resultCode__internalError}
TwoTrailers ==
    {[rslt |-> resultCode__timeout, err |-> 0, hasStatus |-> FALSE, status |-> 0, len |-> 0],
     [rslt |-> resultCode__success, err |-> 0, hasStatus |-> TRUE, status |-> 200, len |-> 120],
     [rslt |-> resultCode__success, err |-> 0, hasStatus |-> TRUE, status |-> 404, len |-> 0]}
TwoBody == [sz |-> 5, strlen |-> 5]
TwoFileResults == {[rslt |-> resultCode__success, long |-> TRUE, zero |-> TRUE],
                   [rslt |-> resultCode__internalError, long |-> FALSE, zero |-> FALSE]}

NextTwo ==
    \/ \E t \in Tasks : http_get(t, FALSE)
    \/ \E t \in Tasks : http_post(t, TwoBody, FALSE)
    \/ \E t \in Tasks : http_postFile(t, FALSE)
    \/ \E t \in Tasks : AwaitLock_acquired(t)
    \/ \E t \in Tasks : AwaitLock_timeout(t)
    \/ \E t \in Tasks, r \in TwoResults : S__setUrl(t, r)
    \/ \E t \in Tasks, r \in TwoResults, f \in BOOLEAN :
          S__httpGET_requestHeader(t, r, f, 0)
    \/ \E t \in Tasks, tr \in TwoTrailers : S__httpGET_trailer(t, tr)
    \/ \E t \in Tasks : S__httpPOST_inline(t)
    \/ \E t \in Tasks, tr \in TwoTrailers : S__httpPOST_trailer(t, tr)
    \/ \E t \in Tasks, r \in TwoResults : http_postFile_requestHeader(t, r)
    \/ \E t \in Tasks, tr \in TwoTrailers : http_postFile_trailer(t, tr)
    \/ \E t \in Tasks, p \in OnePage : http_readPage(t, p)
    \/ \E t \in Tasks : http_readPage_noConnect(t, resultCode__internalError)
    \/ \E t \in Tasks : http_readPage_return(t)
    \/ \E t \in Tasks : http_readPageToFile(t)
    \/ \E t \in Tasks, fr \in TwoFileResults : http_readPageToFile_result(t, fr)
    \/ RxArrive(Len(inbound))
    \/ \E t \in Tasks : S__httpRxHndlr_start(t)
    \/ \E t \in Tasks : S__httpRxHndlr_pass(t, FALSE, 0)

SpecTwo == Init /\ [][NextTwo]_vars

(***************************************************************************)
(* SpecPump: one task reads pages of every length and <err>, the bytes     *)
(* arriving in every fragmentation.                                        *)
(***************************************************************************)
PumpTrailer ==
    [rslt |-> resultCode__success, err |-> 0, hasStatus |-> TRUE, status |-> 200, len |-> 120]

NextPump ==
    \/ http_getCustomRequest("app1", 60, FALSE)
    \/ AwaitLock_acquired("app1")
    \/ S__setUrl("app1", resultCode__success)
    \/ S__httpGET_plain("app1")
    \/ S__httpGET_trailer("app1", PumpTrailer)
    \/ \E p \in Pages : http_readPage("app1", p)
    \/ http_readPage_return("app1")
    \/ \E k \in 1..rxBffrCapacity : RxArrive(k)
    \/ S__httpRxHndlr_start("app1")
    \/ \E f \in BOOLEAN, g \in GarbageErrs : S__httpRxHndlr_pass("app1", f, g)

SpecPump == Init /\ [][NextPump]_vars


\* the lines http_addCommonHdrs appends for headerMap (lines 158-173): in C
\* the test headerMap & httpHeaderMap_accept > 0 is headerMap & (1 > 0)
CommonHdrs(headerMap) ==
       (IF BitAnd(headerMap, Gt(httpHeaderMap_accept, 0)) # 0 \/ headerMap = httpHeaderMap_all
        THEN <<HdrAccept>> ELSE <<>>)
    \o (IF BitAnd(headerMap, Gt(httpHeaderMap_userAgent, 0)) # 0 \/ headerMap = httpHeaderMap_all
        THEN <<HdrUserAgent>> ELSE <<>>)
    \o (IF BitAnd(headerMap, Gt(httpHeaderMap_connection, 0)) # 0 \/ headerMap = httpHeaderMap_all
        THEN <<HdrConnection>> ELSE <<>>)
    \o (IF BitAnd(headerMap, Gt(httpHeaderMap_contentType, 0)) # 0 \/ headerMap = httpHeaderMap_all
        THEN <<HdrContentType>> ELSE <<>>)

\* the lines, each followed by "\r\n"
RECURSIVE JoinLines(_)
JoinLines(lines) ==
    IF lines = <<>> THEN <<>> ELSE Head(lines) \o CRLF \o JoinLines(Tail(lines))

RECURSIVE LogHdrs(_)
LogHdrs(lines) ==
    IF lines = <<>> THEN <<>> ELSE <<LogEntry("hdr", Head(lines))>> \o LogHdrs(Tail(lines))

\* http_addCommonHdrs(request, headerMap)
http_addCommonHdrs(headerMap) ==
    /\ Building
    /\ rqst # NoRqst
    /\ nCalls' = nCalls + 1
    /\ LET poked == [rqst EXCEPT !.buf = PokeCR(rqst.buf)]
           lines == CommonHdrs(headerMap)
       IN  /\ bcall' = [BuildCall("addCommonHdrs", headerMap, <<>>) EXCEPT !.lines = lines]
           /\ IF ~(headerMap > 0) THEN AssertFails(rqst)
              ELSE IF ~(rqst.contentLen = 0) THEN AssertFails(rqst)
              ELSE IF ~(Len(poked.buf) + http__commandHdrSz < rqst.sz) THEN AssertFails(poked)
              ELSE /\ rqst' = [poked EXCEPT !.buf = poked.buf \o JoinLines(lines)]
                   /\ log' = log \o LogHdrs(lines)
                   /\ UNCHANGED <<asserted, faulted>>
    /\ UNCHANGED <<serviceVars, pumpVars>>

\* http_addBasicAuthHdr(request, user, pw).  toEncode is not initialised
\* before strcat appends to it (line 190): the call faults, or b64str gets the
\* encoding of whatever toEncode then holds.
http_addBasicAuthHdr(user, pw, fault, b64str) ==
    /\ Building
    /\ rqst # NoRqst
    /\ nCalls' = nCalls + 1
    /\ bcall' = BuildCall("addBasicAuthHdr", 0, AuthKey \o b64str)
    /\ LET poked == [rqst EXCEPT !.buf = PokeCR(rqst.buf)]
       IN  IF ~(rqst.contentLen = 0) THEN AssertFails(rqst)
           ELSE IF fault
           THEN /\ faulted' = TRUE
                /\ rqst' = poked
                /\ UNCHANGED <<asserted, log>>
           ELSE IF ~(Len(poked.buf) + Len(b64str) + 20 < rqst.sz) THEN AssertFails(poked)
           ELSE /\ rqst' = [poked EXCEPT !.buf = poked.buf \o AuthKey \o b64str \o CRLF]
                /\ log' = Append(log, LogEntry("hdr", AuthKey \o b64str))
                /\ UNCHANGED <<asserted, faulted>>
    /\ UNCHANGED <<serviceVars, pumpVars>>

\* http_addHeader without line 209
http_addHeader_noClosedCheck(key, val) ==
    /\ Building
    /\ rqst # NoRqst
    /\ nCalls' = nCalls + 1
    /\ bcall' = BuildCall("addHeader", 0, key \o KeySep \o val)
    /\ LET poked == [rqst EXCEPT !.buf = PokeCR(rqst.buf)]
           newHdrSz == (Len(key) + 2 + Len(val) + 2) % 256
       IN  IF ~(Len(poked.buf) + newHdrSz < rqst.sz) THEN AssertFails(poked)
           ELSE /\ rqst' = [poked EXCEPT !.buf = poked.buf \o key \o KeySep \o val \o CRLF]
                /\ log' = Append(log, LogEntry("hdr", key \o KeySep \o val))
                /\ UNCHANGED <<asserted, faulted>>
    /\ UNCHANGED <<serviceVars, pumpVars>>

\* http_addHeader(request, key, val)
http_addHeader(key, val) ==
    /\ Building
    /\ rqst # NoRqst
    /\ nCalls' = nCalls + 1
    /\ bcall' = BuildCall("addHeader", 0, key \o KeySep \o val)
    /\ LET poked == [rqst EXCEPT !.buf = PokeCR(rqst.buf)]
           newHdrSz == (Len(key) + 2 + Len(val) + 2) % 256
       IN  IF ~(rqst.contentLen = 0) THEN AssertFails(rqst)
           ELSE IF ~(Len(poked.buf) + newHdrSz < rqst.sz) THEN AssertFails(poked)
           ELSE /\ rqst' = [poked EXCEPT !.buf = poked.buf \o key \o KeySep \o val \o CRLF]
                /\ log' = Append(log, LogEntry("hdr", key \o KeySep \o val))
                /\ UNCHANGED <<asserted, faulted>>
    /\ UNCHANGED <<serviceVars, pumpVars>>

\* http_addPostData(request, postData, postDataSz), postDataSz = Len(postData).
\* Only the first call tests the capacity (line 235); a later call whose data
\* runs past the buffer writes outside it, which faults or goes unnoticed.
http_addPostData(postData, fault) ==
    /\ Building
    /\ rqst # NoRqst
    /\ nCalls' = nCalls + 1
    /\ bcall' = BuildCall("addPostData", 0, postData)
    /\ LET postDataSz == Len(postData)
           poked == [rqst EXCEPT !.buf = PokeCR(rqst.buf)]
           closed == IF rqst.contentLen = 0
                     THEN [poked EXCEPT !.buf = poked.buf \o ContentLengthPlaceholder,
                                        !.headersLen = Len(poked.buf)
                                                       + Len(ContentLengthPlaceholder)]
                     ELSE poked
           at == closed.headersLen + closed.contentLen
       IN  IF rqst.contentLen = 0 /\ ~(closed.headersLen + postDataSz < rqst.sz)
           THEN AssertFails(closed)
           ELSE /\ faulted' = (fault /\ at + postDataSz > rqst.sz)
                /\ rqst' = [closed EXCEPT !.buf = WriteAt(closed.buf, at, postData),
                                          !.contentLen = (closed.contentLen + postDataSz) % 65536]
                /\ log' = Append(log, LogEntry("body", postData))
                /\ UNCHANGED asserted
    /\ UNCHANGED <<serviceVars, pumpVars>>

(***************************************************************************)
(* SpecBuild: one caller composes one request.                             *)
(***************************************************************************)
\* the caller posts the request it has composed:
\* http_postCustomRequest(httpCtrl, relativeUrl, &rqst, false)
PostComposed(t) ==
    /\ pc[t] = "idle"
    /\ rqst # NoRqst
    /\ ~asserted
    /\ http_postCustomRequest(t, rqst.headersLen, [sz |-> rqst.contentLen, strlen |-> 0], FALSE)

NextBuild ==
    \/ \E reqstType \in ReqstTypes, host \in Hosts, relativeUrl \in RelativeUrls,
          fault \in BOOLEAN, g \in GarbageHosts :
            http_createRequest(reqstType, host, relativeUrl, fault, g)
    \/ \E headerMap \in HeaderMaps : http_addCommonHdrs(headerMap)
    \/ \E a \in AuthArgs, fault \in BOOLEAN, b64str \in B64Outs :
            http_addBasicAuthHdr(a.user, a.pw, fault, b64str)
    \/ \E h \in HeaderArgs : http_addHeader(h.key, h.val)
    \/ \E postData \in PostDatas, fault \in BOOLEAN : http_addPostData(postData, fault)
    \/ PostComposed("app1")
    \/ AwaitLock_acquired("app1")
    \/ S__setUrl("app1", resultCode__success)
    \/ \E r \in CmdResults, f \in BOOLEAN : S__httpPOST_custom("app1", r, f, 0)
    \/ \E tr \in TwoTrailers : S__httpPOST_trailer("app1", tr)

SpecBuild == Init /\ [][NextBuild]_vars

(***************************************************************************)
(* Properties.                                                             *)
(***************************************************************************)
Last(seq) == seq[Len(seq)]

\* the bytes the callback was given, in the order of the calls
RECURSIVE Forwarded(_)
Forwarded(calls) == IF calls = <<>> THEN <<>> ELSE Head(calls).data \o Forwarded(Tail(calls))

\* the commands of a sequence that come before the method command
PreInvokeCmds == {"QHTTPCFG responseheader", "QHTTPCFG sslctxid", "QHTTPURL",
                  "QHTTPCFG requestheader"}

\* C1: when get, getCustomRequest, post, postCustomRequest or postFile has
\* returned, the caller does not hold the command lock, whatever the exit path
\* (trailer received, a failed sub-step, a failed trailer wait).
C1_RequestReleasesLock ==
    \A t \in Tasks :
        (pc[t] = "done" /\ call[t].op \in RequestOps) => isOpenLocked # t

\* a post whose trailer wait failed has returned, and the lock is free
C1_Witness ==
    /\ pc["app1"] = "done"
    /\ call["app1"].op = "post"
    /\ lockTried["app1"]
    /\ atcmdResponse.rslt = resultCode__timeout
    /\ ret["app1"] = resultCode__internalError
    /\ isOpenLocked = NoTask

C3_StateInv ==
    \A t \in Tasks :
        /\ pc[t] \in LockedPcs \cup ReadPcs => isOpenLocked = t
        /\ pc[t] = "awaitLock" => sent[t] = <<>>

C3_StepInv ==
    \A t \in Tasks :
        /\ (pc[t] = "awaitLock" /\ pc'[t] = "done") =>
               /\ ret'[t] = resultCode__timeout
               /\ sent'[t] = <<>>
               /\ isOpenLocked \in Tasks \ {t}
               /\ isOpenLocked' = isOpenLocked
        /\ (sent'[t] # sent[t] /\ sent'[t] # <<>>) => isOpenLocked \in {t, NoTask}

C3_OneExchange == [](C3_StateInv) /\ [][C3_StepInv]_vars

\* app2's get returned Timeout without a command while app1 was in its sequence
C3_Witness ==
    /\ pc["app2"] = "done"
    /\ call["app2"].op = "get"
    /\ ret["app2"] = resultCode__timeout
    /\ sent["app2"] = <<>>
    /\ isOpenLocked = "app1"
    /\ pc["app1"] \in LockedPcs

\* C4: a request that returns because the lock was not obtained returns
\* Timeout, has issued no command, and leaves requestState, httpStatus, pageSize
\* and pageRemaining as they were when the call was made.
C4_TimeoutNoSideEffects ==
    [][\A t \in Tasks :
          (pc[t] = "awaitLock" /\ pc'[t] = "done") =>
              /\ ret'[t] = resultCode__timeout
              /\ sent'[t] = <<>>
              /\ [requestState |-> requestState'[t], httpStatus |-> httpStatus'[t],
                  pageSize |-> pageSize'[t], pageRemaining |-> pageRemaining'[t]]
                 = entryCtrl[t]]_vars

\* C5: requestComplete implies a status in [200,299]; and after a request
\* whose trailer wait succeeded with err 0 and a status field, httpStatus is
\* that field and requestState is requestComplete exactly when it is in [200,299].
C5_StatusRecorded ==
    \A t \in Tasks :
        /\ requestState[t] = "requestComplete" => httpStatus[t] \in 200..299
        /\ ( /\ pc[t] = "done"
             /\ call[t].op \in RequestOps
             /\ atcmdResponse.rslt = resultCode__success
             /\ atcmdResponse.err = 0
             /\ atcmdResponse.hasStatus )
           => /\ httpStatus[t] = atcmdResponse.status
              /\ requestState[t] = "requestComplete" <=> atcmdResponse.status \in 200..299

\* a request answered with status 299 has returned requestComplete
C5_Witness ==
    /\ pc["app1"] = "done"
    /\ call["app1"].op \in RequestOps
    /\ atcmdResponse.hasStatus
    /\ atcmdResponse.status = 299
    /\ httpStatus["app1"] = 299
    /\ requestState["app1"] = "requestComplete"

\* C6: readPage and readPageToFile called while requestState is not
\* requestComplete return PreconditionFailed; the lock has not been asked for, no
\* command was issued, and the lock, the data-mode consumer, the ring buffer and
\* the handler are as they were.
C6_StateInv ==
    \A t \in Tasks :
        (pc[t] = "done" /\ call[t].op \in ReadOps /\ requestState[t] # "requestComplete")
        => /\ ret[t] = resultCode__preConditionFailed
           /\ ~lockTried[t]
           /\ sent[t] = <<>>

C6_StepInv ==
    \A t \in Tasks :
        ( /\ pc[t] \in Ready
          /\ requestState[t] # "requestComplete"
          /\ call'[t].op \in ReadOps
          /\ <<pc[t], call[t], ret[t], sent[t], lockTried[t]>>
             # <<pc'[t], call'[t], ret'[t], sent'[t], lockTried'[t]>> )
        => /\ pc'[t] = "done"
           /\ ret'[t] = resultCode__preConditionFailed
           /\ sent'[t] = <<>>
           /\ ~lockTried'[t]
           /\ UNCHANGED <<isOpenLocked, autoLock, dataMode, atcmdVars, ctrlVars, pumpVars>>

C6_ReadPrecondition == [](C6_StateInv) /\ [][C6_StepInv]_vars

\* readPageToFile refused after a request the server answered with 404
C6_Witness ==
    /\ pc["app1"] = "done"
    /\ call["app1"].op = "readPageToFile"
    /\ ret["app1"] = resultCode__preConditionFailed
    /\ httpStatus["app1"] = 404
    /\ requestState["app1"] = "idle"
    /\ ~lockTried["app1"]

\* C7: a request goes on past a command only when that command succeeded;
\* a request whose last command is one of those before the method command has
\* returned that command's result, which is not success, with requestState idle;
\* and no command is issued twice in one call.
C7_SubStepAborts ==
    \A t \in Tasks :
        call[t].op \in RequestOps =>
            /\ (pc[t] \in LockedPcs /\ sent[t] # <<>>) => atcmdResult = resultCode__success
            /\ (pc[t] = "done" /\ sent[t] # <<>> /\ Last(sent[t]).cmd \in PreInvokeCmds)
               => /\ atcmdResult # resultCode__success
                  /\ ret[t] = atcmdResult
                  /\ requestState[t] = "idle"
            /\ \A i, j \in 1..Len(sent[t]) : sent[t][i].cmd = sent[t][j].cmd => i = j

\* a postFile whose requestheader command timed out has returned Timeout
C7_Witness ==
    /\ pc["app1"] = "done"
    /\ call["app1"].op = "postFile"
    /\ Len(sent["app1"]) >= 2
    /\ Last(sent["app1"]).cmd = "QHTTPCFG requestheader"
    /\ ret["app1"] = resultCode__timeout
    /\ requestState["app1"] = "idle"

\* C8: when preamble, body and terminal marker were buffered at the start of
\* the handler, the blocks given to the callback, put together, are the body.
C8_BodyForwarded ==
    (pumpPc = "done" /\ wholeAtStart) => Forwarded(delivered) = Body(page.len)

\* C9: a callback with isFinalChunk set is the last callback of the page
\* read, and the bytes given up to and including it are the whole body.
C9_FinalOnLastChunk ==
    \A i \in 1..Len(delivered) :
        delivered[i].final =>
            /\ i = Len(delivered)
            /\ Forwarded(SubSeq(delivered, 1, i)) = Body(page.len)

\* C10: when the handler has ended with the whole read trailer in wrkBffr,
\* it returns success for <err> 0 and <err> itself otherwise.
C10_ErrReturned ==
    ( /\ pumpPc = "done"
      /\ Len(wrkBffr) < wrkBffrSz
      /\ BBFFR_ISFOUND(bbffr_find(wrkBffr, ReadPrefix \o ToDigits(page.err) \o <<13, 10>>)) )
    => pumpRslt = IF page.err = 0 THEN resultCode__success ELSE page.err

\* C11: a page read whose trailer carries <err> 0 and whose handler has
\* found the marker and ended has returned success, the callback has been
\* given exactly the body, and isFinalChunk was set on the last call and on no
\* other.
C11_PageDelivered ==
    (pumpPc = "done" /\ page.err = 0 /\ wrkBffr # <<>>) =>
        /\ pumpRslt = resultCode__success
        /\ Forwarded(delivered) = Body(page.len)
        /\ delivered # <<>>
        /\ \A i \in 1..Len(delivered) : delivered[i].final <=> i = Len(delivered)

\* C12: a get, post or postFile whose wait for the trailer ended with a
\* result other than success has returned InternalError with requestState idle.
C12_TrailerWaitFailed ==
    \A t \in Tasks :
        ( /\ pc[t] = "done"
          /\ call[t].op \in RequestOps
          /\ atcmdResponse # NoTrailer
          /\ atcmdResponse.rslt # resultCode__success )
        => /\ ret[t] = resultCode__internalError
           /\ requestState[t] = "idle"

\* C18: every byte of every block given to the callback is a byte of the
\* body; no byte of the terminal marker is forwarded.
C18_NoMarkerByteForwarded ==
    \A i \in 1..Len(delivered) :
        \A j \in 1..Len(delivered[i].data) :
            delivered[i].data[j] \in {Body(page.len)[k] : k \in 1..page.len}

\* C19: the handler is inside its loop only while a pass has something to do
\* (a block to forward or the marker in the ring buffer); it does not stay
\* there waiting for bytes to arrive.
C19_NeverWaits ==
    pumpPc = "loop" =>
        \/ BlockReady(rxBffr)
        \/ BBFFR_ISFOUND(bbffr_find(rxBffr, TerminalMarker))

\* C17: after http_setConnection(url, 0) the TLS flag is set exactly when the
\* url's 5th character is 's' or 'S', and the port is 443 with TLS and 80
\* without.
C17_TlsAndPortFromUrl ==
    \A t \in Tasks :
        (call[t].op = "setConnection" /\ call[t].port = 0) =>
            /\ useTls[t] <=> hostUrl[t] \in {"https://host", "HTTPS://host"}
            /\ hostPort[t] = IF useTls[t] THEN 443 ELSE 80

\* the connection was set with an upper-case HTTPS url
C17_Witness ==
    /\ call["app1"].op = "setConnection"
    /\ call["app1"].port = 0
    /\ hostUrl["app1"] = "HTTPS://host"
    /\ useTls["app1"]
    /\ hostPort["app1"] = 443

\* the host name of a url: what follows "://", or the url when it has no scheme
RECURSIVE HostOf(_)
HostOf(url) ==
    IF Len(url) < 3 THEN url
    ELSE IF SubSeq(url, 1, 3) = <<58, 47, 47>> THEN Drop(url, 3)
    ELSE LET rest == HostOf(Tail(url)) IN IF rest = Tail(url) THEN url ELSE rest

\* C14: when http_createRequest has returned, the request of a GET or POST
\* holds exactly "<VERB> <path> HTTP/1.1\r\nHost: <host>\r\n" (the host as
\* given or without its scheme) with headersLen = 0 and contentLen = 0, and
\* that of any other method holds no request line.
C14_RequestLine ==
    (bcall.op = "createRequest" /\ ~asserted /\ ~faulted) =>
        IF bcall.type \in {"GET", "POST"}
        THEN /\ \E h \in {bcall.text, HostOf(bcall.text)} :
                    rqst.buf = (IF bcall.type = "GET" THEN VerbGet ELSE VerbPost)
                               \o bcall.url \o ProtoAndHost \o h \o CRLF
             /\ rqst.headersLen = 0
             /\ rqst.contentLen = 0
        ELSE rqst.buf = <<>>

\* the line of a common header when the bitmap selects it
Selected(headerMap, bit, line) ==
    IF BitAnd(headerMap, bit) # 0 \/ headerMap = httpHeaderMap_all THEN <<line>> ELSE <<>>

\* the common headers a bitmap selects, in the fixed order
SelectedHdrs(headerMap) ==
       Selected(headerMap, httpHeaderMap_accept, HdrAccept)
    \o Selected(headerMap, httpHeaderMap_userAgent, HdrUserAgent)
    \o Selected(headerMap, httpHeaderMap_connection, HdrConnection)
    \o Selected(headerMap, httpHeaderMap_contentType, HdrContentType)

\* C15: when http_addCommonHdrs has returned for a non-zero bitmap, the lines
\* it appended are exactly the headers whose own bit is set in the bitmap (all
\* four for the 'all' value), in the order Accept, User-Agent, Connection,
\* Content-Type, and the buffer ends with them.
C15_SelectedHdrsAppended ==
    (bcall.op = "addCommonHdrs" /\ bcall.map > 0 /\ ~asserted /\ ~faulted) =>
        LET added == JoinLines(SelectedHdrs(bcall.map))
        IN  /\ bcall.lines = SelectedHdrs(bcall.map)
            /\ Drop(rqst.buf, Len(rqst.buf) - Len(added)) = added

\* the functions that append to a request
HeaderOps == {"addCommonHdrs", "addBasicAuthHdr", "addHeader"}
AppendOps == HeaderOps \cup {"addPostData"}

\* the buffer ends in "\r\n"
EndsInCRLF(buf) == Len(buf) >= 2 /\ SubSeq(buf, Len(buf) - 1, Len(buf)) = CRLF

\* C20: a call of an append function on a request whose buffer does not end
\* in "\r\n" fails its ASSERT and leaves every byte of the buffer as it was.
C20_CRLFRequired ==
    [][ ( /\ rqst # NoRqst
          /\ ~EndsInCRLF(rqst.buf)
          /\ nCalls' = nCalls + 1
          /\ bcall'.op \in AppendOps )
        => asserted' /\ rqst'.buf = rqst.buf ]_vars

\* C13: once contentLen is not 0, a call of http_addCommonHdrs,
\* http_addBasicAuthHdr or http_addHeader fails its ASSERT and leaves the
\* buffer, headersLen and contentLen as they were; and in no request does a
\* header line come after body bytes.
C13_StateInv ==
    \A i \in 1..Len(log) : \A j \in 1..Len(log) :
        (i < j /\ log[i].kind = "body" /\ log[i].text # <<>>) => log[j].kind = "body"

C13_StepInv ==
    ( /\ rqst.contentLen # 0
      /\ nCalls' = nCalls + 1
      /\ bcall'.op \in HeaderOps )
    => asserted' /\ rqst' = rqst

C13_HeadersClosed == [](C13_StateInv) /\ [][C13_StepInv]_vars

C13_Witness ==
    /\ asserted
    /\ bcall.op \in HeaderOps
    /\ rqst.contentLen > 0
    /\ \E i \in 1..Len(log) : log[i].kind = "body"

\* the lines of a request head: the texts that end in "\r\n", without it
RECURSIVE CrlfLines(_, _)
CrlfLines(buf, cur) ==
    IF buf = <<>> THEN <<>>
    ELSE IF Len(buf) >= 2 /\ SubSeq(buf, 1, 2) = CRLF
    THEN <<cur>> \o CrlfLines(Drop(buf, 2), <<>>)
    ELSE CrlfLines(Tail(buf), Append(cur, Head(buf)))

\* the texts of the entries of one kind among those the caller gave
RECURSIVE Given(_, _)
Given(entries, kinds) ==
    IF entries = <<>> THEN <<>>
    ELSE (IF Head(entries).kind \in kinds THEN <<Head(entries).text>> ELSE <<>>)
         \o Given(Tail(entries), kinds)

RECURSIVE Concat(_)
Concat(texts) == IF texts = <<>> THEN <<>> ELSE Head(texts) \o Concat(Tail(texts))

\* C16: a request made by http_createRequest(GET or POST) and any calls of the
\* append functions reads back as what was given: the request line with the
\* method and the path, the Host line, every appended header line unchanged
\* and ended by "\r\n", and from offset headersLen a body of contentLen bytes
\* that is the data given.
C16_RoundTrip ==
    (rqst # NoRqst /\ ~asserted /\ ~faulted /\ log[1].kind \in {"GET", "POST"}) =>
        LET closed == \E i \in 1..Len(log) : log[i].kind = "body"
            head == IF closed THEN Take(rqst.buf, rqst.headersLen) ELSE rqst.buf
            verb == IF log[1].kind = "GET" THEN VerbGet ELSE VerbPost
            hdrs == Given(log, {"hdr"})
                    \o (IF closed THEN <<Take(ContentLengthPlaceholder, 21), <<>>>> ELSE <<>>)
            body == Concat(Given(log, {"body"}))
        IN  /\ \E h \in {log[2].text, HostOf(log[2].text)} :
                    CrlfLines(head, <<>>)
                        = <<verb \o log[1].text \o Take(ProtoAndHost, 9),
                            Drop(ProtoAndHost, 11) \o h>> \o hdrs
            /\ Len(body) = rqst.contentLen
            /\ closed => SubSeq(rqst.buf, rqst.headersLen + 1,
                                rqst.headersLen + rqst.contentLen) = body

\* C21: a call of http_addPostData on a request that an earlier call of
\* http_addPostData has closed (also one that gave no data) appends no second
\* Content-Length placeholder and leaves headersLen as that first call set it:
\* the buffer grows by the data alone and contentLen by its length.
C21_PlaceholderOnce ==
    [][ ( /\ \E i \in 1..Len(log) : log[i].kind = "body"
          /\ nCalls' = nCalls + 1
          /\ bcall'.op = "addPostData"
          /\ ~asserted' /\ ~faulted' )
        => /\ rqst'.headersLen = rqst.headersLen
           /\ Len(rqst'.buf) = Len(rqst.buf) + Len(bcall'.text)
           /\ rqst'.contentLen = rqst.contentLen + Len(bcall'.text) ]_vars

\* C22: headersLen + contentLen of a request never exceeds the size of its
\* buffer: no call of http_addPostData, first or later, writes past the end.
C22_BodyWithinBuffer ==
    rqst # NoRqst => rqst.headersLen + rqst.contentLen <= rqst.sz

\* C29: after http_setConnection(url, port) with a port that is not 0, the
\* control's port is the port given.
C29_PortStored ==
    \A t \in Tasks :
        (call[t].op = "setConnection" /\ call[t].port # 0) => hostPort[t] = call[t].port

\* C24: the length in the AT+QHTTPPOST command of a post is the length of the
\* body: postDataSz for http_post, the request's contentLen for
\* http_postCustomRequest.
C24_PostLength ==
    \A t \in Tasks :
        call[t].op \in PostOps =>
            \A i \in 1..Len(sent[t]) :
                sent[t][i].cmd = "QHTTPPOST" => sent[t][i].arg = call[t].body.sz

\* C25: a request that has returned a status of the success range has left
\* requestState at requestComplete.
C25_SuccessOnlyWhenComplete ==
    \A t \in Tasks :
        (pc[t] = "done" /\ call[t].op \in RequestOps /\ InSuccessRange(ret[t]))
            => requestState[t] = "requestComplete"

\* C26: http_get, which passes no custom request, reads no field of one: it
\* does not stop on a read through the null pointer, and the GET it issues does
\* not carry a headersLen.
C26_PlainGetReadsNoRequest ==
    \A t \in Tasks :
        call[t].op = "get" =>
            /\ pc[t] # "fault"
            /\ \A i \in 1..Len(sent[t]) : sent[t][i].cmd # "QHTTPGET hdrLen"

\* the method command of t's request has been issued and its trailer is awaited
MethodIssued(t) == pc[t] \in {"getTrailer", "postTrailer", "fileTrailer"}

\* C27: when http_post (a raw body, no custom request) has issued its POST
\* command, the modem's "requestheader" option is 0, whatever requests came
\* before.
C27_RawPostWithoutRequestHeader ==
    \A t \in Tasks :
        (call[t].op = "post" /\ MethodIssued(t)) => reqHdrOpt = 0

\* C28: when a request has issued its method command, the modem's
\* "responseheader" option is 1 if the call asked for the response headers and
\* 0 if it did not.
C28_ResponseHeaderAsAsked ==
    \A t \in Tasks :
        (call[t].op \in RequestOps /\ MethodIssued(t))
            => respHdrOpt = IF call[t].respHdrs THEN 1 ELSE 0

\* the decimal text of n, right-justified in 5 characters with spaces
RightJustified5(n) == [i \in 1..(5 - Len(ToDigits(n))) |-> 32] \o ToDigits(n)

\* C23: the invoke step of a post with a custom request whose headers are
\* closed leaves, in the 5 bytes before the "\r\n\r\n" that ends the headers,
\* the decimal text of contentLen right-justified with spaces, and every other
\* byte of the request as it was.
C23_ContentLengthPatched ==
    [][ \A t \in Tasks :
          ( /\ pc[t] = "postInvoke" /\ pc'[t] = "postTrailer"
            /\ call[t].custom
            /\ rqst.headersLen > 0 )
          => rqst' = [rqst EXCEPT !.buf = Take(rqst.buf, rqst.headersLen - 9)
                                          \o RightJustified5(rqst.contentLen)
                                          \o Drop(rqst.buf, rqst.headersLen - 4)] ]_vars

=============================================================================
